---- MODULE Spec2Model ----
(***************************************************************************)
(* State-machine model of the SOP question-answering backend:             *)
(*   app.py                   the Flask handlers and the app_state dict    *)
(*   vector_store_manager.py  create_vector_store and its two artifacts    *)
(*   utils.py                 load_documents_from_sops_dir, get_text_chunks*)
(*   gemini_handler.py        get_llm, get_conversational_chain            *)
(* The Flask development server is threaded: handlers of different         *)
(* requests interleave between their statements.  Each handler is cut into *)
(* steps at the points where it reads or writes shared state (app_state,   *)
(* the sops directory, the two persisted artifacts).                       *)
(***************************************************************************)
EXTENDS Naturals, Integers, Sequences, FiniteSets, TLC

VARIABLES
    app_state,    \* app.py:31-39, the module-level dict
    sops_dir,     \* config.SOP_DIR_PATH: whether it exists, and its files
    index_file,   \* faiss_index/sop_index.faiss (VECTOR_STORE_PATH)
    chunks_file,  \* faiss_index/text_chunks.pkl (TEXT_CHUNKS_PATH)
    phase,        \* "boot": __main__ has not yet run initialize_app; "serving"
    pc,           \* per worker thread: the statement it is about to execute
    loc,          \* per worker thread: the handler's local variables
    last,         \* the response sent by the step just taken (NoResp: none was sent)
    built,        \* history: create_vector_store has returned a store at least once
    stale         \* history: an upload completed and no ingestion that read its file has succeeded

vars == <<app_state, sops_dir, index_file, chunks_file, phase, pc, loc, last, built, stale>>

----------------------------------------------------------------------------
(* Values *)

\* Python's None, for a string-valued field.
None == "None"

\* None, for a vector store: a FAISS store always holds at least one entry.
NoStore == [docs |-> <<>>]

\* None, for a RetrievalQA chain.
NoChain == [retriever |-> NoStore]

\* A path at which os.path.exists is False.
NoFile == [kind |-> "absent", chunks |-> <<>>]

\* The server handles each request on a thread of its own; two are in flight at most.
Threads == {1, 2}

\* File names in the sops directory, in the order os.listdir returns them.
Names == <<"a.txt", "b.pdf", "notes.md", "test_sop.txt">>
NameSet == {Names[i] : i \in 1..Len(Names)}

\* filename.endswith(".pdf") / (".docx") / (".txt"): the files the loader reads.
Supported(name) == name \in {"a.txt", "b.pdf", "test_sop.txt"}

Absent == <<"absent">>

\* A file whose extraction raises (a corrupt PDF, bytes that are not UTF-8).
Corrupt == <<"corrupt">>

\* A file's text is a sequence of blocks, each block giving one chunk: "A" is a
\* block of the full chunk size, "B" a shorter one (the text of test_sop.txt),
\* " " a block made of whitespace only.  These are the texts that are uploaded.
Texts == { <<" ">>, <<"A">> }

\* What the script of vector_store_manager.py writes into test_sop.txt: a text
\* that fits in one chunk.
TestSopText == <<"B">>

\* config.TEXT_CHUNK_SIZE, the length of a full chunk (block "A").
TEXT_CHUNK_SIZE == 1000

\* The length of the text of test_sop.txt (block "B").
TestSopLen == 107

\* len(page_content) of a passage.
Length(block) == IF block = "A" THEN TEXT_CHUNK_SIZE ELSE TestSopLen

InitState ==
    [ api_key_loaded         |-> FALSE,
      sops_processed         |-> FALSE,
      vector_store           |-> NoStore,
      qa_chain               |-> NoChain,
      processed_docs_count   |-> 0,
      processed_chunks_count |-> 0,
      error_message          |-> None ]

NoLoc ==
    [ op         |-> "none",   \* which handler runs: "ps", "ask", "upload", "script"
      docs       |-> <<>>,     \* documents_data
      chunks     |-> <<>>,     \* text_chunks_with_source / text_chunks_data
      force      |-> FALSE,    \* force_recreate
      via        |-> "none",   \* path create_vector_store returned on: "load", "build", "fail", "empty"
      persist    |-> "not_started",  \* this build: save_local "started", "index_written"
      rm_failed  |-> FALSE,    \* history: an os.remove of the cleanup raised OSError
      ret_vs     |-> NoStore,  \* create_vector_store's first result
      ret_chunks |-> <<>>,     \* create_vector_store's second result
      chain      |-> NoChain,  \* ask_question: the chain object whose invoke() is running
      similar    |-> <<>>,     \* script: similar_documents, the result of get_similar_docs
      search_raised |-> FALSE, \* history: similarity_search raised in that call
      gate       |-> FALSE,    \* history: the knowledge base was READY when the gate was evaluated
      gate_stale |-> FALSE,    \* history: value of stale when the ask request arrived
      rerun      |-> FALSE,    \* history: process_sops began in the state a run on this directory leaves
      missed     |-> FALSE,    \* history: a file was saved after this ingestion read the directory
      tainted    |-> FALSE ]   \* history: an upload this ingestion missed has completed

\* Lines 77-83: the fields of app_state that get_status puts in its JSON body.
StatusBody(s) ==
    [ api_key_loaded         |-> s.api_key_loaded,
      sops_processed         |-> s.sops_processed,
      processed_docs_count   |-> s.processed_docs_count,
      processed_chunks_count |-> s.processed_chunks_count,
      error_message          |-> s.error_message ]

NoResp ==
    [ kind         |-> "none",
      status       |-> 0,
      body         |-> "none",
      success      |-> FALSE,
      docs_count   |-> 0,
      chunks_count |-> 0,
      gate         |-> FALSE,
      gate_stale   |-> FALSE,
      rerun        |-> FALSE,
      invoked      |-> FALSE,
      sources      |-> <<>>,   \* ask: source_documents of the JSON body
      reported     |-> StatusBody(InitState),  \* status: the JSON body
      after_upload |-> FALSE,  \* history: the step before this status request was a successful upload's return
      result       |-> [result |-> "none", source_documents |-> <<>>] ]
                               \* history: what the chain's invoke() returned

Resp(t, kind, status, body) ==
    [NoResp EXCEPT !.kind = kind, !.status = status, !.body = body]

----------------------------------------------------------------------------
(* utils.py *)

\* A loader whose loop ends at the first file whose extraction raises.
RECURSIVE LoadFrom_AbortsOnError(_, _)
LoadFrom_AbortsOnError(dir, i) ==
    IF i > Len(Names) THEN <<>>
    ELSE LET name == Names[i]
             text == dir.files[name]
         IN  IF text = Corrupt /\ Supported(name) THEN <<>>
             ELSE IF text # Absent /\ Supported(name) /\ text # <<>>
             THEN <<[name |-> name, text |-> text]>> \o LoadFrom_AbortsOnError(dir, i + 1)
             ELSE LoadFrom_AbortsOnError(dir, i + 1)

RECURSIVE LoadFrom(_, _)
LoadFrom(dir, i) ==
    IF i > Len(Names) THEN <<>>
    ELSE LET name == Names[i]
             text == dir.files[name]
         IN  IF text # Absent /\ Supported(name) /\ text # Corrupt /\ text # <<>>
             THEN <<[name |-> name, text |-> text]>> \o LoadFrom(dir, i + 1)
             ELSE LoadFrom(dir, i + 1)

\* load_documents_from_sops_dir: [] when the directory is missing; otherwise one
\* document per listed file of a supported extension whose extraction does not
\* raise (the except of line 52 skips the file) and gives non-empty text
\* ("if text:").
load_documents_from_sops_dir(dir) ==
    IF ~dir.exists THEN <<>> ELSE LoadFrom(dir, 1)

IsBlank(block) == block = " "

\* doc_text.strip(): the text without its leading and trailing whitespace blocks.
RECURSIVE LStrip(_)
LStrip(text) ==
    IF text # <<>> /\ IsBlank(Head(text)) THEN LStrip(Tail(text)) ELSE text

RECURSIVE RStrip(_)
RStrip(text) ==
    IF text # <<>> /\ IsBlank(text[Len(text)])
    THEN RStrip(SubSeq(text, 1, Len(text) - 1)) ELSE text

Strip(text) == RStrip(LStrip(text))

\* RecursiveCharacterTextSplitter.split_text: one chunk per chunk-sized block
\* of text; whitespace-only pieces are dropped.
split_text(text) == SelectSeq(text, LAMBDA b : ~IsBlank(b))

\* A numbering that starts at 1.
DocChunks_OneBased(doc) ==
    LET cs == split_text(doc.text)
    IN  [i \in 1..Len(cs) |->
            [ page_content |-> cs[i],
              source       |-> doc.name,
              chunk_id     |-> <<doc.name, "_chunk_", i>> ]]

\* The Document objects of one document: enumerate(chunks_text_list), with
\* chunk_id f"{name}_chunk_{i}" kept as its three parts.
DocChunks(doc) ==
    LET cs == split_text(doc.text)
    IN  [i \in 1..Len(cs) |->
            [ page_content |-> cs[i],
              source       |-> doc.name,
              chunk_id     |-> <<doc.name, "_chunk_", i - 1>> ]]

\* A chunker that returns after its first document.
get_text_chunks_FirstDocOnly(documents_data) ==
    IF documents_data = <<>> THEN <<>>
    ELSE LET doc == Head(documents_data)
         IN  IF Strip(doc.text) = <<>> THEN <<>> ELSE DocChunks(doc)

RECURSIVE get_text_chunks(_)
get_text_chunks(documents_data) ==
    IF documents_data = <<>> THEN <<>>
    ELSE LET doc == Head(documents_data)
         IN  (IF Strip(doc.text) = <<>> THEN <<>> ELSE DocChunks(doc))
             \o get_text_chunks(Tail(documents_data))

----------------------------------------------------------------------------
(* Successor-state helpers *)

\* The handler of thread t goes on to its next statement; no response is sent.
Goto(t, label) ==
    /\ pc' = [pc EXCEPT ![t] = label]
    /\ last' = NoResp

Locals(t, l) == loc' = [loc EXCEPT ![t] = l]

\* The handler of thread t returns: its locals are dropped, the response is sent.
\* A request is taken by the first free thread (the threads are interchangeable).
Free(t) ==
    /\ pc[t] = "idle"
    /\ \A u \in Threads : u < t => pc[u] # "idle"

Respond(t, r) ==
    /\ pc' = [pc EXCEPT ![t] = "idle"]
    /\ loc' = [loc EXCEPT ![t] = NoLoc]
    /\ last' = r

----------------------------------------------------------------------------
(* vector_store_manager.py: create_vector_store(text_chunks_data, force_recreate) *)

\* index.ntotal of a persisted or in-memory index.
ntotal(vs) == Len(vs.docs)

\* The index file save_local writes for a store, and the store load_local reads back.
IndexFile(vs) == [kind |-> "index", chunks |-> vs.docs]

LoadLocal(idx) == [docs |-> idx.chunks]

\* A dump that loses the first passage.
ChunksFile_WithoutFirst(chunks) == [kind |-> "list", chunks |-> Tail(chunks)]

\* The sidecar pickle.dump writes.
ChunksFile(chunks) == [kind |-> "list", chunks |-> chunks]

\* A test of line 49 that ignores force_recreate.
TakesLoadPath_IgnoresForce(idx, pkl, force_recreate) == idx # NoFile /\ pkl # NoFile

\* A validation that asks for a non-empty list instead of comparing the counts.
LoadAccepts_NonEmptyList(idx, pkl) ==
    /\ pkl.kind = "list"
    /\ pkl.chunks # <<>>

\* A validation without the count comparison of line 62.
LoadAccepts_NoCountCheck(idx, pkl) == pkl.kind = "list"

\* Lines 58-62: the unpickled sidecar is a list of Document objects and its
\* length equals the index's entry count.
LoadAccepts(idx, pkl) ==
    /\ pkl.kind = "list"
    /\ Len(pkl.chunks) = ntotal(LoadLocal(idx))

\* Line 49: the load path is tried.
TakesLoadPath(idx, pkl, force_recreate) ==
    idx # NoFile /\ pkl # NoFile /\ ~force_recreate

\* create_vector_store returns to its caller.
CvsReturn(t, via, vs, chunks, rm_failed) ==
    /\ Goto(t, IF loc[t].op = "ps" THEN "ps_store" ELSE "script_done")
    /\ Locals(t, [loc[t] EXCEPT !.via = via, !.ret_vs = vs, !.ret_chunks = chunks,
                                !.rm_failed = rm_failed])
    /\ built' = (built \/ vs # NoStore)

\* Lines 41-68.  exc: get_embeddings_model, FAISS.load_local or pickle.load raises.
CvsBegin(t) ==
    /\ pc[t] = "cvs_begin"
    /\ UNCHANGED <<app_state, sops_dir, index_file, chunks_file, phase, stale>>
    /\ IF loc[t].chunks = <<>>
       THEN CvsReturn(t, "empty", NoStore, <<>>, FALSE)
       ELSE IF TakesLoadPath(index_file, chunks_file, loc[t].force)
       THEN \E exc \in BOOLEAN :
              IF ~exc /\ LoadAccepts(index_file, chunks_file)
              THEN CvsReturn(t, "load", LoadLocal(index_file), chunks_file.chunks, FALSE)
              ELSE /\ Goto(t, "cvs_embed")
                   /\ UNCHANGED <<loc, built>>
       ELSE /\ Goto(t, "cvs_embed")
            /\ UNCHANGED <<loc, built>>

\* A build that leaves the last Document out of the index.
FromDocuments_DropsLast(chunks) == [docs |-> SubSeq(chunks, 1, Len(chunks) - 1)]

\* Line 74: the store FAISS.from_documents builds, one entry per Document.
FromDocuments(chunks) == [docs |-> chunks]

\* Lines 72-74: get_embeddings_model() and FAISS.from_documents; either may raise.
CvsEmbed(t) ==
    /\ pc[t] = "cvs_embed"
    /\ UNCHANGED <<app_state, sops_dir, index_file, chunks_file, phase, stale, built>>
    /\ \E ok \in BOOLEAN :
         IF ok
         THEN /\ Goto(t, "cvs_save")
              /\ Locals(t, [loc[t] EXCEPT !.ret_vs = FromDocuments(loc[t].chunks)])
         ELSE /\ Goto(t, "cvs_cleanup")
              /\ UNCHANGED loc

\* Line 76: vector_store.save_local.  It may raise before or after the index
\* file has been written.
CvsSave(t) ==
    /\ pc[t] = "cvs_save"
    /\ UNCHANGED <<app_state, sops_dir, chunks_file, phase, stale, built>>
    /\ \E r \in {"ok", "raise_before", "raise_after"} :
         /\ index_file' = IF r = "raise_before" THEN index_file ELSE IndexFile(loc[t].ret_vs)
         /\ Locals(t, [loc[t] EXCEPT !.persist = IF r = "raise_before" THEN "started"
                                                                        ELSE "index_written"])
         /\ Goto(t, IF r = "ok" THEN "cvs_dump" ELSE "cvs_cleanup")

\* What pickle.dump leaves when it raises after open(..., 'wb') truncated the file.
TruncatedPickle == [kind |-> "truncated", chunks |-> <<>>]

\* Lines 78-81: the sidecar is written and the pair is returned.
CvsDump(t) ==
    /\ pc[t] = "cvs_dump"
    /\ UNCHANGED <<app_state, sops_dir, index_file, phase, stale>>
    /\ \E r \in {"ok", "raise_open", "raise_write"} :
         IF r = "ok"
         THEN /\ chunks_file' = ChunksFile(loc[t].chunks)
              /\ CvsReturn(t, "build", loc[t].ret_vs, loc[t].chunks, FALSE)
         ELSE /\ chunks_file' = IF r = "raise_open" THEN chunks_file ELSE TruncatedPickle
              /\ Goto(t, "cvs_cleanup")
              /\ UNCHANGED <<loc, built>>

\* A cleanup that only logs.
RemoveFile_KeepsFile(file, removed) == file

\* os.remove(path) guarded by os.path.exists(path); removed is FALSE when it
\* raises OSError, which lines 86 and 89 log and swallow.
RemoveFile(file, removed) == IF file # NoFile /\ removed THEN NoFile ELSE file

RemoveRaises(file, removed) == file # NoFile /\ ~removed

\* Lines 82-90: the except branch.
CvsCleanup(t) ==
    /\ pc[t] = "cvs_cleanup"
    /\ UNCHANGED <<app_state, sops_dir, phase, stale>>
    /\ \E rm_index \in BOOLEAN, rm_chunks \in BOOLEAN :
         /\ index_file' = RemoveFile(index_file, rm_index)
         /\ chunks_file' = RemoveFile(chunks_file, rm_chunks)
         /\ CvsReturn(t, "fail", NoStore, <<>>,
                      RemoveRaises(index_file, rm_index) \/ RemoveRaises(chunks_file, rm_chunks))

----------------------------------------------------------------------------
(* app.py: process_sops *)

\* The knowledge base is READY: questions may be answered.
KBReady(s) == s.sops_processed /\ s.qa_chain # NoChain

\* A clear that leaves the store and the chain of the prior cycle in place.
ClearState_KeepsIndex(s) ==
    [s EXCEPT !.sops_processed = FALSE,
              !.processed_docs_count = 0,
              !.processed_chunks_count = 0,
              !.error_message = None]

\* Lines 96-101.
ClearState(s) ==
    [s EXCEPT !.vector_store = NoStore,
              !.qa_chain = NoChain,
              !.sops_processed = FALSE,
              !.processed_docs_count = 0,
              !.processed_chunks_count = 0,
              !.error_message = None]

\* The JSON body of a process_sops response.
PsResp(t, status, success, message, docs_count, chunks_count) ==
    [Resp(t, "process_sops", status, message) EXCEPT
        !.success = success, !.docs_count = docs_count, !.chunks_count = chunks_count]

\* A failure return that reports the message without storing it.
FailWith_MessageNotStored(t, s, status, message) ==
    /\ app_state' = s
    /\ Respond(t, PsResp(t, status, FALSE, message,
                         s.processed_docs_count, s.processed_chunks_count))

\* A failure return of process_sops that first stores the message in
\* app_state["error_message"] and reports the counts held in app_state.
FailWith(t, s, status, message) ==
    /\ app_state' = [s EXCEPT !.error_message = message]
    /\ Respond(t, PsResp(t, status, FALSE, message,
                         s.processed_docs_count, s.processed_chunks_count))

\* An except branch that sets the flag the wrong way.
ExceptState_MarksReady(s) ==
    [s EXCEPT !.sops_processed = TRUE, !.error_message = "Error processing SOPs"]

\* Lines 159-166: the except branch of process_sops.
ExceptState(s) == [s EXCEPT !.sops_processed = FALSE, !.error_message = "Error processing SOPs"]

\* An except branch that reports the failure as a soft one.
ExceptHandler_Answers200(t, s) ==
    /\ app_state' = ExceptState(s)
    /\ Respond(t, PsResp(t, 200, FALSE, "Error processing SOPs",
                         s.processed_docs_count, s.processed_chunks_count))

ExceptHandler(t, s) ==
    /\ app_state' = ExceptState(s)
    /\ Respond(t, PsResp(t, 500, FALSE, "Error processing SOPs",
                         s.processed_docs_count, s.processed_chunks_count))

\* gemini_handler.get_conversational_chain over vector_store_manager.get_retriever:
\* None when there is no store or as_retriever raised.
MakeChain(vector_store, retriever_ok) ==
    IF vector_store = NoStore \/ ~retriever_ok
    THEN NoChain
    ELSE [retriever |-> vector_store]

\* The state in which a process_sops that succeeds at every stage leaves
\* app_state, as a function of the directory it read (lines 104-150).
ReadyState(dir) ==
    LET documents_data == load_documents_from_sops_dir(dir)
        text_chunks_with_source == get_text_chunks(documents_data)
        vector_store == FromDocuments(text_chunks_with_source)
    IN  [ api_key_loaded         |-> TRUE,
          sops_processed         |-> TRUE,
          vector_store           |-> vector_store,
          qa_chain               |-> MakeChain(vector_store, TRUE),
          processed_docs_count   |-> Len(documents_data),
          processed_chunks_count |-> Len(text_chunks_with_source),
          error_message          |-> None ]

\* Lines 88-102: the credentials gate, then the prior cycle's state is cleared.
ProcessStart(t) ==
    /\ Free(t)
    /\ phase = "serving"
    /\ UNCHANGED <<sops_dir, index_file, chunks_file, phase, built, stale>>
    /\ IF ~app_state.api_key_loaded
       THEN /\ Respond(t, PsResp(t, 500, FALSE, "API key not loaded", 0, 0))
            /\ UNCHANGED app_state
       ELSE /\ app_state' = ClearState(app_state)
            /\ Goto(t, "ps_load")
            /\ Locals(t, [NoLoc EXCEPT !.op = "ps",
                                      !.rerun = (app_state = ReadyState(sops_dir))])

\* Lines 104-112.
ProcessLoad(t) ==
    /\ pc[t] = "ps_load"
    /\ UNCHANGED <<sops_dir, index_file, chunks_file, phase, built, stale>>
    /\ LET documents_data == load_documents_from_sops_dir(sops_dir)
       IN  IF documents_data = <<>>
           THEN /\ app_state' = [app_state EXCEPT !.error_message = "No documents found"]
                /\ Respond(t, PsResp(t, 200, FALSE, "No documents found", 0, 0))
           ELSE /\ app_state' = [app_state EXCEPT !.processed_docs_count = Len(documents_data)]
                /\ Goto(t, "ps_chunk")
                /\ Locals(t, [loc[t] EXCEPT !.docs = documents_data])

\* Lines 114-125: chunking, then the call of create_vector_store(force_recreate=True).
ProcessChunk(t) ==
    /\ pc[t] = "ps_chunk"
    /\ UNCHANGED <<sops_dir, index_file, chunks_file, phase, built, stale>>
    /\ LET text_chunks_with_source == get_text_chunks(loc[t].docs)
       IN  IF text_chunks_with_source = <<>>
           THEN /\ app_state' = [app_state EXCEPT !.error_message = "Failed to create text chunks"]
                /\ Respond(t, PsResp(t, 200, FALSE, "Failed to create text chunks",
                                     app_state.processed_docs_count, 0))
           ELSE /\ app_state' = [app_state EXCEPT
                                    !.processed_chunks_count = Len(text_chunks_with_source)]
                /\ Goto(t, "cvs_begin")
                /\ Locals(t, [loc[t] EXCEPT !.chunks = text_chunks_with_source, !.force = TRUE])

\* Lines 126-132.
ProcessStore(t) ==
    /\ pc[t] = "ps_store"
    /\ UNCHANGED <<sops_dir, index_file, chunks_file, phase, built, stale>>
    /\ LET s == [app_state EXCEPT !.vector_store = loc[t].ret_vs]
       IN  IF s.vector_store = NoStore
           THEN FailWith(t, s, 500, "Failed to create vector store")
           ELSE /\ app_state' = s
                /\ Goto(t, "ps_chain")
                /\ UNCHANGED loc

\* Lines 134-147.  get_llm raises RuntimeError when the LLM cannot be initialised
\* (it never returns None); RetrievalQA.from_chain_type may raise.
ProcessChain(t) ==
    /\ pc[t] = "ps_chain"
    /\ UNCHANGED <<sops_dir, index_file, chunks_file, phase, built, stale>>
    /\ \E llm_ok \in BOOLEAN, retriever_ok \in BOOLEAN, chain_ok \in BOOLEAN :
         IF ~llm_ok \/ (retriever_ok /\ ~chain_ok)
         THEN ExceptHandler(t, app_state)
         ELSE LET s == [app_state EXCEPT
                          !.qa_chain = MakeChain(app_state.vector_store, retriever_ok)]
              IN  IF s.qa_chain = NoChain
                  THEN FailWith(t, s, 500, "Failed to create conversational QA chain")
                  ELSE /\ app_state' = s
                       /\ Goto(t, "ps_ready")
                       /\ UNCHANGED loc

\* Lines 149-150.
PublishReady(s) == [s EXCEPT !.sops_processed = TRUE, !.error_message = None]

\* Lines 149-157.
ProcessReady(t) ==
    /\ pc[t] = "ps_ready"
    /\ UNCHANGED <<sops_dir, index_file, chunks_file, phase, built>>
    /\ app_state' = PublishReady(app_state)
    /\ stale' = (stale /\ loc[t].tainted)
    /\ Respond(t, [PsResp(t, 200, TRUE, "SOPs processed successfully",
                          app_state.processed_docs_count, app_state.processed_chunks_count)
                   EXCEPT !.rerun = loc[t].rerun])

----------------------------------------------------------------------------
(* vector_store_manager.py: retrieval *)

\* The two queries of the script (lines 161 and 171).
Queries == {"query1", "query2"}

RECURSIVE Reverse(_)
Reverse(seq) == IF seq = <<>> THEN <<>> ELSE Reverse(Tail(seq)) \o <<Head(seq)>>

\* The passages of a store ordered by similarity to the query.  The order is
\* the embedding provider's; the two queries stand for two different orders.
Ranked(query, docs) == IF query = "query1" THEN docs ELSE Reverse(docs)

Min(a, b) == IF a <= b THEN a ELSE b

\* FAISS.similarity_search(query, k): the k best passages, all of them when the
\* index holds fewer.
similarity_search(vector_store, query, k) ==
    SubSeq(Ranked(query, vector_store.docs), 1, Min(k, ntotal(vector_store)))

\* Lines 115-124: [] without a store, and [] when similarity_search raises.
get_similar_docs(query, vector_store, k, raises) ==
    IF vector_store = NoStore THEN <<>>
    ELSE IF raises THEN <<>>
    ELSE similarity_search(vector_store, query, k)

\* get_retriever's default k_results (line 92), the k of the chain's retriever.
RetrieverK == 5

----------------------------------------------------------------------------
(* app.py: ask_question *)

\* A gate that looks at the chain alone.
AskRejects_ChainOnly(s) == s.qa_chain = NoChain

\* Line 171: the readiness gate.
AskRejects(s) == ~s.sops_processed \/ s.qa_chain = NoChain

\* Request bodies: not JSON (get_json gives no dict), JSON without a question
\* (or an empty one), JSON with a question.
Questions == {"no_body", "empty", "q"}

AskResp(t, status, body) ==
    [Resp(t, "ask", status, body) EXCEPT !.gate = loc[t].gate, !.gate_stale = loc[t].gate_stale]

\* Lines 171-173.
AskGate(t) ==
    /\ Free(t)
    /\ phase = "serving"
    /\ UNCHANGED <<app_state, sops_dir, index_file, chunks_file, phase, built, stale>>
    /\ IF AskRejects(app_state)
       THEN Respond(t, [Resp(t, "ask", 400, "SOPs not processed yet") EXCEPT
                           !.gate = KBReady(app_state), !.gate_stale = stale])
       ELSE /\ Locals(t, [NoLoc EXCEPT !.op = "ask", !.gate = KBReady(app_state),
                                         !.gate_stale = stale])
            /\ Goto(t, "ask_invoke")

\* What the client receives when request.get_json() or data.get raises outside
\* the try block (lines 175-176): Flask answers for the handler, 400 for
\* malformed JSON, 415 for another content type, 500 for a JSON value that is
\* not an object.
EscapedStatus == {400, 415, 500}

\* Lines 175-186.  The body is parsed, then the chain is read from app_state
\* again and its invoke() is entered; app_state["qa_chain"] may be None by now,
\* and the AttributeError is caught at line 208.
AskInvoke(t) ==
    /\ pc[t] = "ask_invoke"
    /\ UNCHANGED <<app_state, sops_dir, index_file, chunks_file, phase, built, stale>>
    /\ \E question \in Questions :
       LET chain == app_state.qa_chain
       IN  CASE question = "no_body" ->
                  \E status \in EscapedStatus :
                     Respond(t, AskResp(t, status, "unhandled exception"))
             [] question = "empty" ->
                  Respond(t, AskResp(t, 400, "No question provided"))
             [] OTHER ->
                  IF chain = NoChain
                  THEN Respond(t, AskResp(t, 500, "Error processing question"))
                  ELSE /\ Goto(t, "ask_answer")
                       /\ Locals(t, [loc[t] EXCEPT !.chain = chain])

\* An except branch that records the failure in app_state.
AskAnswer_StoresError(t) ==
    /\ pc[t] = "ask_answer"
    /\ app_state' = [app_state EXCEPT !.error_message = "Error processing question"]
    /\ Respond(t, [AskResp(t, 500, "Error processing question") EXCEPT !.invoked = TRUE])
    /\ UNCHANGED <<sops_dir, index_file, chunks_file, phase, built, stale>>

\* An except branch that answers 200.
AskAnswer_ErrorAs200(t) ==
    /\ pc[t] = "ask_answer"
    /\ Respond(t, [AskResp(t, 200, "Error processing question") EXCEPT !.invoked = TRUE])
    /\ UNCHANGED <<app_state, sops_dir, index_file, chunks_file, phase, built, stale>>

\* The characters a preview keeps of a passage (line 202).
PreviewChars == 250

\* s[:n]: the first n characters of a text, all of it when it is shorter.
Slice(content, n) == [of |-> content, len |-> Min(n, Length(content))]

\* A source entry that carries the whole passage.
SourceInfo_WholeContent(doc) ==
    [ content  |-> [head |-> [of |-> doc.page_content, len |-> Length(doc.page_content)],
                    tail |-> "... (truncated)"],
      metadata |-> [source |-> doc.source, chunk_id |-> doc.chunk_id] ]

\* Line 202: {"content": doc.page_content[:250] + "... (truncated)",
\* "metadata": doc.metadata}.
SourceInfo(doc) ==
    [ content  |-> [head |-> Slice(doc.page_content, PreviewChars),
                    tail |-> "... (truncated)"],
      metadata |-> [source |-> doc.source, chunk_id |-> doc.chunk_id] ]

\* Lines 199-203: one entry per source document, in the order of the result.
SourcesForResponse(result) ==
    [i \in 1..Len(result.source_documents) |-> SourceInfo(result.source_documents[i])]

\* What RetrievalQA.invoke returns (return_source_documents=True): the
\* completion and the passages its retriever ranked best for the question.
Invoke(chain, query, completion) ==
    [ result           |-> completion,
      source_documents |-> similarity_search(chain.retriever, query, RetrieverK) ]

\* Lines 186-211: invoke() returns or raises.
\* outcome: the chain answers; the LLM call fails inside CustomGenAILLM._call,
\* which returns the failure text as the completion; the chain raises.
\* query: the question, as far as it decides the ranking of the passages.
AskAnswer(t) ==
    /\ pc[t] = "ask_answer"
    /\ UNCHANGED <<app_state, sops_dir, index_file, chunks_file, phase, built, stale>>
    /\ \E outcome \in {"answer", "llm_error_text", "raise"}, query \in Queries :
         IF outcome = "raise"
         THEN Respond(t, [AskResp(t, 500, "Error processing question")
                          EXCEPT !.invoked = TRUE])
         ELSE LET result == Invoke(loc[t].chain, query, outcome)
              IN  Respond(t, [AskResp(t, 200, result.result)
                              EXCEPT !.invoked = TRUE,
                                     !.sources = SourcesForResponse(result),
                                     !.result = result])

----------------------------------------------------------------------------
(* app.py: get_status, list_sops, upload_sop *)

\* Lines 74-83.
GetStatus(t) ==
    /\ Free(t)
    /\ phase = "serving"
    /\ Respond(t, [Resp(t, "status", 200, "status") EXCEPT
                      !.reported = StatusBody(app_state),
                      !.after_upload = (last.kind = "upload" /\ last.success)])
    /\ UNCHANGED <<app_state, sops_dir, index_file, chunks_file, phase, built, stale>>

\* Lines 213-226.
ListSops(t) ==
    /\ Free(t)
    /\ phase = "serving"
    /\ Respond(t, IF sops_dir.exists THEN Resp(t, "list", 200, "sops")
                                     ELSE Resp(t, "list", 404, "SOPs directory not found"))
    /\ UNCHANGED <<app_state, sops_dir, index_file, chunks_file, phase, built, stale>>

\* The sanitized names under which files are uploaded.
UploadNames == {"a.txt"}

\* An upload that also forgets the counts of the last ingestion.
MarkStale_ResetsCounts(s) ==
    [s EXCEPT !.sops_processed = FALSE, !.qa_chain = NoChain,
              !.processed_docs_count = 0, !.processed_chunks_count = 0]

\* An upload that clears the flag and leaves the chain in place.
MarkStale_FlagOnly(s) == [s EXCEPT !.sops_processed = FALSE]

\* Lines 257-258.
MarkStale(s) == [s EXCEPT !.sops_processed = FALSE, !.qa_chain = NoChain]

\* Lines 229-253: the directory is created if missing, the file part is checked,
\* the file is saved under its sanitized name (replacing a file of that name).
\* An ingestion that has already read the directory does not see the file.
UploadRequest(t) ==
    /\ Free(t)
    /\ phase = "serving"
    /\ UNCHANGED <<app_state, index_file, chunks_file, phase, built, stale>>
    /\ \/ /\ ~sops_dir.exists
          /\ Respond(t, Resp(t, "upload", 500, "Could not create SOPs directory"))
          /\ UNCHANGED sops_dir
       \/ /\ \E message \in {"No file part", "No file selected"} :
                Respond(t, Resp(t, "upload", 400, message))
          /\ sops_dir' = [sops_dir EXCEPT !.exists = TRUE]
       \/ /\ Respond(t, Resp(t, "upload", 500, "Error saving file"))
          /\ sops_dir' = [sops_dir EXCEPT !.exists = TRUE]
       \/ /\ \E name \in UploadNames, text \in Texts :
                sops_dir' = [exists |-> TRUE, files |-> [sops_dir.files EXCEPT ![name] = text]]
          /\ Goto(t, "up_mark")
          /\ loc' = [u \in Threads |->
                       IF u = t
                       THEN [NoLoc EXCEPT !.op = "upload"]
                       ELSE IF loc[u].op = "ps" /\ pc[u] # "ps_load"
                            THEN [loc[u] EXCEPT !.missed = TRUE]
                            ELSE loc[u]]

\* Lines 254-260.
UploadMark(t) ==
    /\ pc[t] = "up_mark"
    /\ app_state' = MarkStale(app_state)
    /\ stale' = TRUE
    /\ pc' = [pc EXCEPT ![t] = "idle"]
    /\ last' = [Resp(t, "upload", 200, "uploaded") EXCEPT !.success = TRUE]
    /\ loc' = [u \in Threads |->
                 IF u = t
                 THEN NoLoc
                 ELSE IF loc[u].op = "ps" /\ loc[u].missed
                      THEN [loc[u] EXCEPT !.tainted = TRUE]
                      ELSE loc[u]]
    /\ UNCHANGED <<sops_dir, index_file, chunks_file, phase, built>>

\* A handler that marks the knowledge base stale before the save is known to
\* have succeeded.
UploadSaveInterrupted_MarksStale(t) ==
    /\ Free(t)
    /\ phase = "serving"
    /\ \E name \in UploadNames :
          sops_dir' = [exists |-> TRUE, files |-> [sops_dir.files EXCEPT ![name] = <<>>]]
    /\ Respond(t, Resp(t, "upload", 500, "Error saving file"))
    /\ app_state' = MarkStale(app_state)
    /\ UNCHANGED <<index_file, chunks_file, phase, built, stale>>

\* Lines 253 and 261-263: file.save raises after it has opened the destination
\* for writing.  The file is left in the directory without content, the except
\* branch answers 500 and nothing of app_state is written.
UploadSaveInterrupted(t) ==
    /\ Free(t)
    /\ phase = "serving"
    /\ \E name \in UploadNames :
          sops_dir' = [exists |-> TRUE, files |-> [sops_dir.files EXCEPT ![name] = <<>>]]
    /\ Respond(t, Resp(t, "upload", 500, "Error saving file"))
    /\ UNCHANGED <<app_state, index_file, chunks_file, phase, built, stale>>

----------------------------------------------------------------------------
(* vector_store_manager.py run as a script (lines 126-187) *)

\* Lines 131-137: the directory and test_sop.txt are created when missing.
WithTestSop(dir) ==
    [exists |-> TRUE,
     files  |-> IF dir.files["test_sop.txt"] = Absent
                THEN [dir.files EXCEPT !["test_sop.txt"] = TestSopText]
                ELSE dir.files]

\* Lines 131-154: load, chunk, then create_vector_store(force_recreate=False).
ScriptStart(t) ==
    /\ Free(t)
    /\ sops_dir' = WithTestSop(sops_dir)
    /\ UNCHANGED <<app_state, index_file, chunks_file, phase, built, stale>>
    /\ LET raw_docs_data == load_documents_from_sops_dir(sops_dir')
           all_text_chunks == get_text_chunks(raw_docs_data)
       IN  IF all_text_chunks = <<>>
           THEN UNCHANGED <<pc, loc>> /\ last' = NoResp
           ELSE /\ Goto(t, "cvs_begin")
                /\ Locals(t, [NoLoc EXCEPT !.op = "script", !.docs = raw_docs_data,
                                           !.chunks = all_text_chunks, !.force = FALSE])

\* Lines 155-159 and 180-181: the queries are run only on a store that was
\* created or loaded; otherwise the failure is logged and the script ends.
ScriptDone(t) ==
    /\ pc[t] = "script_done"
    /\ UNCHANGED <<app_state, sops_dir, index_file, chunks_file, phase, built, stale>>
    /\ IF loc[t].ret_vs # NoStore /\ loc[t].ret_chunks # <<>>
       THEN Goto(t, "script_query1") /\ UNCHANGED loc
       ELSE Goto(t, "idle") /\ Locals(t, NoLoc)

\* The k of the script's calls (lines 162 and 172).
ScriptK == 2

\* Lines 160-179: one call of get_similar_docs(query, vs, k=2) and its logging.
ScriptQuery(t, label, query, next) ==
    /\ pc[t] = label
    /\ UNCHANGED <<app_state, sops_dir, index_file, chunks_file, phase, built, stale>>
    /\ \E raises \in BOOLEAN :
         /\ Locals(t, [loc[t] EXCEPT
                          !.similar = get_similar_docs(query, loc[t].ret_vs, ScriptK, raises),
                          !.search_raised = raises])
         /\ Goto(t, next)

ScriptQuery1(t) == ScriptQuery(t, "script_query1", "query1", "script_query2")

ScriptQuery2(t) == ScriptQuery(t, "script_query2", "query2", "script_end")

\* The script ends.
ScriptEnd(t) ==
    /\ pc[t] = "script_end"
    /\ Goto(t, "idle")
    /\ Locals(t, NoLoc)
    /\ UNCHANGED <<app_state, sops_dir, index_file, chunks_file, phase, built, stale>>

----------------------------------------------------------------------------
(* Process lifetime *)

\* Lines 41-72 and 267-273: __main__ runs initialize_app before app.run.
\* get_llm either returns the LLM or raises, and the except branches store a message.
InitializeApp ==
    /\ phase = "boot"
    /\ phase' = "serving"
    /\ \E llm_ok \in BOOLEAN :
         app_state' = [app_state EXCEPT
                          !.api_key_loaded = llm_ok,
                          !.error_message = IF llm_ok THEN None ELSE "Failed to initialize LLM"]
    /\ last' = NoResp
    /\ UNCHANGED <<sops_dir, index_file, chunks_file, pc, loc, built, stale>>

\* The processes are killed at any point and the server is started again: memory
\* is lost, the sops directory and the persisted artifacts stay as they are.
Crash ==
    /\ phase = "serving" \/ \E t \in Threads : pc[t] # "idle"
    /\ app_state' = InitState
    /\ phase' = "boot"
    /\ pc' = [t \in Threads |-> "idle"]
    /\ loc' = [t \in Threads |-> NoLoc]
    /\ last' = NoResp
    /\ stale' = FALSE
    /\ UNCHANGED <<sops_dir, index_file, chunks_file, built>>

----------------------------------------------------------------------------
(* Specifications *)

Init ==
    /\ app_state = InitState
    /\ sops_dir = [exists |-> FALSE, files |-> [n \in NameSet |-> Absent]]
    /\ index_file = NoFile
    /\ chunks_file = NoFile
    /\ phase = "boot"
    /\ pc = [t \in Threads |-> "idle"]
    /\ loc = [t \in Threads |-> NoLoc]
    /\ last = NoResp
    /\ built = FALSE
    /\ stale = FALSE

\* No request is in flight.
AllIdle == \A t \in Threads : pc[t] = "idle"

\* No other thread is inside an ingestion or a script run.
NoOtherBuilder(t) == \A u \in Threads \ {t} : loc[u].op \notin {"ps", "script"}

\* The steps a thread takes once its handler has begun.
Continue(t) ==
    \/ ProcessLoad(t)
    \/ ProcessChunk(t)
    \/ CvsBegin(t)
    \/ CvsEmbed(t)
    \/ CvsSave(t)
    \/ CvsDump(t)
    \/ CvsCleanup(t)
    \/ ProcessStore(t)
    \/ ProcessChain(t)
    \/ ProcessReady(t)
    \/ AskInvoke(t)
    \/ AskAnswer(t)
    \/ UploadMark(t)
    \/ ScriptDone(t)
    \/ ScriptQuery1(t)
    \/ ScriptQuery2(t)
    \/ ScriptEnd(t)

\* Requests that do not rebuild the index.
Request(t) ==
    \/ AskGate(t)
    \/ GetStatus(t)
    \/ ListSops(t)
    \/ UploadRequest(t)

\* The design of section 5: at most one rebuild of the index in flight, any
\* interleaving of it with the other requests.
Next ==
    \/ InitializeApp
    \/ Crash
    \/ \E t \in Threads : Request(t)
    \/ \E t \in Threads : Continue(t)
    \/ \E t \in Threads : NoOtherBuilder(t) /\ ProcessStart(t)
    \/ \E t \in Threads : NoOtherBuilder(t) /\ ScriptStart(t)

Spec == Init /\ [][Next]_vars

\* The steps of process_sops after its first, and the second step of upload_sop.
ContinueIngest(t) ==
    \/ ProcessLoad(t)
    \/ ProcessChunk(t)
    \/ CvsBegin(t)
    \/ CvsEmbed(t)
    \/ CvsSave(t)
    \/ CvsDump(t)
    \/ CvsCleanup(t)
    \/ ProcessStore(t)
    \/ ProcessChain(t)
    \/ ProcessReady(t)
    \/ UploadMark(t)

\* The server as the code runs it: nothing serializes two process_sops
\* requests.  Only uploads and ingestions are issued.
NextRace ==
    \/ InitializeApp
    \/ \E t \in Threads : UploadRequest(t)
    \/ \E t \in Threads : ProcessStart(t)
    \/ \E t \in Threads : ContinueIngest(t)

SpecRace == Init /\ [][NextRace]_vars

\* Requests handled strictly one after the other: a request (or a script run)
\* begins only when no other is in flight.  An upload may also fail in the
\* middle of writing its file.
NextSeq ==
    \/ InitializeApp
    \/ Crash
    \/ \E t \in Threads : AllIdle /\ Request(t)
    \/ \E t \in Threads : AllIdle /\ UploadSaveInterrupted(t)
    \/ \E t \in Threads : AllIdle /\ ProcessStart(t)
    \/ \E t \in Threads : AllIdle /\ ScriptStart(t)
    \/ \E t \in Threads : Continue(t)

SpecSeq == Init /\ [][NextSeq]_vars

\* What a file of the source directory may hold when the server starts: nothing
\* (not listed), content whose extraction raises, no text, whitespace only, a
\* text that fits in one chunk, a text of two chunks.
FileContents == {Absent, Corrupt, <<>>, <<" ">>, <<"B">>, <<"A", "B">>}

\* The source directories the server may find: a missing one, or one holding
\* any of the contents under each name.
Directories ==
    { [exists |-> FALSE, files |-> [n \in NameSet |-> Absent]] }
    \cup { [exists |-> TRUE, files |-> f] :
             f \in {g \in [NameSet -> FileContents] : g["notes.md"] \in {Absent, <<"B">>}} }

InitDir ==
    /\ app_state = InitState
    /\ sops_dir \in Directories
    /\ index_file = NoFile
    /\ chunks_file = NoFile
    /\ phase = "boot"
    /\ pc = [t \in Threads |-> "idle"]
    /\ loc = [t \in Threads |-> NoLoc]
    /\ last = NoResp
    /\ built = FALSE
    /\ stale = FALSE

\* The steps of the server's handlers after their first.
ContinueServer(t) ==
    \/ ContinueIngest(t)
    \/ AskInvoke(t)
    \/ AskAnswer(t)

\* The server started on any of the source directories, its requests handled
\* one after the other.
NextDir ==
    \/ InitializeApp
    \/ \E t \in Threads : AllIdle /\ ProcessStart(t)
    \/ \E t \in Threads : AllIdle /\ UploadRequest(t)
    \/ \E t \in Threads : AllIdle /\ AskGate(t)
    \/ \E t \in Threads : ContinueServer(t)

SpecDir == InitDir /\ [][NextDir]_vars

\* The steps of a run of the script after its first.
ContinueScript(t) ==
    \/ CvsBegin(t)
    \/ CvsEmbed(t)
    \/ CvsSave(t)
    \/ CvsDump(t)
    \/ CvsCleanup(t)
    \/ ScriptDone(t)
    \/ ScriptQuery1(t)
    \/ ScriptQuery2(t)
    \/ ScriptEnd(t)

\* vector_store_manager.py run as a script, again and again, on any of the
\* source directories; the server is not running.
NextScript ==
    \/ \E t \in Threads : AllIdle /\ ScriptStart(t)
    \/ \E t \in Threads : ContinueScript(t)

SpecScript == InitDir /\ [][NextScript]_vars

----------------------------------------------------------------------------
(* Claims C1-C10 *)

\* The step of thread t's handler was taken (not a step of another thread, and
\* not a crash, which sends every thread back to idle without a response).
Stepped(t) == pc'[t] # pc[t] /\ pc'[t] # "idle"

\* C1: an ask_question that finds the knowledge base not READY at its gate
\* (sops_processed false or qa_chain None) answers 400 with the fixed
\* "SOPs not processed yet" text and never invokes the QA chain.
C1_NotReadyAskRejected ==
    (last.kind = "ask" /\ ~last.gate)
        => /\ last.status = 400
           /\ last.body = "SOPs not processed yet"
           /\ ~last.invoked

\* C1 witness: a question was rejected while an ingestion had already stored
\* its chain but not yet published sops_processed.
C1_Witness ==
    /\ last.kind = "ask"
    /\ ~last.gate
    /\ last.status = 400
    /\ app_state.qa_chain # NoChain
    /\ ~app_state.sops_processed

\* C2: the state starts not ready, and sops_processed turns true only in the
\* last step of a process_sops whose stages all succeeded (documents loaded,
\* chunks produced, store built, chain created); no other step makes it true.
C2_ReadyOnlyByFullIngest ==
    /\ ~app_state.sops_processed
    /\ [][ (~app_state.sops_processed /\ app_state'.sops_processed)
             => \E t \in Threads :
                   /\ pc[t] = "ps_ready"
                   /\ pc'[t] = "idle"
                   /\ last'.kind = "process_sops"
                   /\ last'.success
                   /\ loc[t].docs # <<>>
                   /\ loc[t].chunks # <<>>
                   /\ loc[t].ret_vs # NoStore
                   /\ last'.docs_count >= 1 ]_vars

\* C2 witness: an ingestion went through every stage and published READY.
C2_Witness ==
    /\ last.kind = "process_sops"
    /\ last.success
    /\ app_state.sops_processed
    /\ built

Cleared(s) ==
    /\ s.vector_store = NoStore
    /\ s.qa_chain = NoChain
    /\ ~s.sops_processed
    /\ s.processed_docs_count = 0
    /\ s.processed_chunks_count = 0
    /\ s.error_message = None

C5_StaleAskRejected ==
    (/\ last.kind = "ask"
     /\ last.gate_stale
     /\ last.body \notin {"No question provided", "unhandled exception"})
        => /\ last.status = 400
           /\ last.body = "SOPs not processed yet"

\* C6 (as claimed): once create_vector_store has succeeded, whenever no request
\* is running the persisted index and the persisted sidecar list hold the same
\* number of entries.
C6_PersistedCountsAgree ==
    (built /\ AllIdle /\ index_file # NoFile /\ chunks_file.kind = "list")
        => Len(chunks_file.chunks) = ntotal(LoadLocal(index_file))

\* C7: a non-forced create_vector_store returns the persisted pair only if both
\* artifacts exist, the sidecar is a list and its length equals the index's
\* entry count; in every other case it goes on to build from its argument.
C7_LoadOnlyIfConsistent ==
    [][ \A t \in Threads :
          (pc[t] = "cvs_begin" /\ ~loc[t].force /\ loc[t].chunks # <<>> /\ Stepped(t))
            => IF loc'[t].via = "load"
               THEN /\ index_file # NoFile
                    /\ chunks_file # NoFile
                    /\ chunks_file.kind = "list"
                    /\ Len(chunks_file.chunks) = Len(index_file.chunks)
                    /\ loc'[t].ret_vs = [docs |-> index_file.chunks]
                    /\ loc'[t].ret_chunks = chunks_file.chunks
               ELSE /\ pc'[t] = "cvs_embed"
                    /\ loc'[t].via = "none" ]_vars

\* C7 witness: a non-forced call found both artifacts, with differing counts or
\* an unreadable sidecar, and went on to rebuild.
C7_Witness ==
    \E t \in Threads :
        /\ pc[t] = "cvs_embed"
        /\ ~loc[t].force
        /\ index_file # NoFile
        /\ chunks_file # NoFile
        /\ (chunks_file.kind # "list" \/ Len(chunks_file.chunks) # Len(index_file.chunks))

\* C8 (as claimed): a non-forced load never returns an index together with a
\* sidecar of another build: the passages of the returned store are the
\* returned passages.
C8_LoadedPairFromOneBuild ==
    \A t \in Threads :
        loc[t].via = "load" => loc[t].ret_vs.docs = loc[t].ret_chunks

\* C9 (as claimed): a build that fails before save_local is called leaves the
\* persisted index and sidecar as they were.
C9_EarlyFailureKeepsArtifacts ==
    [][ \A t \in Threads :
          (pc[t] = "cvs_cleanup" /\ loc[t].persist = "not_started" /\ Stepped(t))
            => (index_file' = index_file /\ chunks_file' = chunks_file) ]_vars

\* C10 (as claimed): after a failed build that had written its index, no pair
\* that a non-forced call would accept remains on disk.
C10_NoLoadablePairAfterFailure ==
    \A t \in Threads :
        (loc[t].via = "fail" /\ loc[t].persist = "index_written")
          => ~(/\ index_file # NoFile
               /\ chunks_file # NoFile
               /\ chunks_file.kind = "list"
               /\ Len(chunks_file.chunks) = Len(index_file.chunks))

\* The part of C10 the cleanup does deliver: a failed build returns
\* (None, None), and when no os.remove of its cleanup raised OSError neither
\* artifact remains on disk.
C10_CleanupWhenRemovalSucceeds ==
    \A t \in Threads :
        loc[t].via = "fail"
          => /\ loc[t].ret_vs = NoStore
             /\ loc[t].ret_chunks = <<>>
             /\ ~loc[t].rm_failed => (index_file = NoFile /\ chunks_file = NoFile)

\* A build failed after writing its index over an existing pair, and the
\* cleanup removed both files.
C10_Witness ==
    \E t \in Threads :
        /\ loc[t].via = "fail"
        /\ loc[t].persist = "index_written"
        /\ ~loc[t].rm_failed
        /\ built
        /\ index_file = NoFile
        /\ chunks_file = NoFile

----------------------------------------------------------------------------
(* Claims C11-C20 *)

\* C11 (as claimed): a forced create_vector_store goes straight to the build
\* and has deleted the previously persisted index and sidecar when the build
\* starts.
C11_ForcedDeletesFirst ==
    [][ \A t \in Threads :
          (pc[t] = "cvs_begin" /\ loc[t].force /\ loc[t].chunks # <<>> /\ Stepped(t))
            => /\ pc'[t] = "cvs_embed"
               /\ index_file' = NoFile
               /\ chunks_file' = NoFile ]_vars

Rebuilding(u) == loc[u].op = "ps" /\ pc[u] # "ps_ready"

\* C13 (as claimed): no invocation of a QA chain runs while an ingestion is
\* between clearing the state and publishing its chain, and a running
\* invocation retrieves from a complete index.
C13_NoAnswerDuringIngestion ==
    \A t \in Threads :
        pc[t] = "ask_answer"
          => /\ loc[t].chain.retriever # NoStore
             /\ ~ \E u \in Threads : Rebuilding(u)

\* C14 (as claimed): with two process_sops requests interleaved, whenever the
\* state is READY the chain retrieves from the store held in the state, and the
\* published chunk count is the number of entries of that store.
C14_ReadyFromOneCycle ==
    KBReady(app_state)
        => /\ app_state.qa_chain.retriever = app_state.vector_store
           /\ app_state.processed_chunks_count = ntotal(app_state.vector_store)
           /\ app_state.processed_docs_count >= 1

\* A step of an ask_question handler: it sent the response, or the handler
\* moved on to its next statement.
AskStep ==
    \/ last'.kind = "ask"
    \/ \E t \in Threads : pc'[t] # pc[t] /\ pc'[t] \in {"ask_invoke", "ask_answer"}

\* C15: every step of ask_question, whatever its outcome, leaves app_state as
\* it was (and the sops directory and the persisted artifacts too).
C15_AskLeavesState ==
    [][ AskStep => /\ app_state' = app_state
                   /\ sops_dir' = sops_dir
                   /\ index_file' = index_file
                   /\ chunks_file' = chunks_file ]_vars

\* C15 witness: answering a question failed and the knowledge base is still READY.
C15_Witness ==
    /\ last.kind = "ask"
    /\ last.invoked
    /\ last.status = 500
    /\ KBReady(app_state)
    /\ app_state.error_message = None

\* C16: with requests handled one after the other, a process_sops that
\* succeeds leaves the state, its response and the persisted pair as functions
\* of the source directory alone (so a second run on an unchanged directory
\* ends where the first did), and every run is a forced build that never
\* returns through the load path.
C16_IngestIdempotent ==
    /\ [] ( (last.kind = "process_sops" /\ last.success)
              => LET S == ReadyState(sops_dir)
                 IN  /\ app_state = S
                     /\ last.docs_count = S.processed_docs_count
                     /\ last.chunks_count = S.processed_chunks_count
                     /\ index_file = IndexFile(S.vector_store)
                     /\ chunks_file = ChunksFile(S.vector_store.docs) )
    /\ [][ \A t \in Threads :
             /\ (loc[t].op = "ps" /\ pc[t] = "cvs_begin" /\ Stepped(t))
                   => loc[t].force /\ pc'[t] = "cvs_embed"
             /\ (loc[t].op = "ps" /\ pc[t] = "ps_store" /\ pc'[t] = "ps_chain")
                   => loc[t].via = "build" ]_vars

\* C16 witness: a second process_sops in a row on the same directory succeeded,
\* over an index that the first run had persisted.
C16_Witness ==
    /\ last.kind = "process_sops"
    /\ last.success
    /\ last.rerun
    /\ app_state = ReadyState(sops_dir)

\* The messages of the soft failures of process_sops.
SoftFailures == {"No documents found", "Failed to create text chunks"}

\* C17: process_sops answers 200 on success and on the two soft failures and
\* 500 on every other failure; a run that finds no document to load answers
\* 200 with success=false, docs_count=0 and chunks_count=0.
C17_ProcessStatusCodes ==
    /\ [] ( last.kind = "process_sops"
              => /\ last.status \in {200, 500}
                 /\ last.status = 200 <=> (last.success \/ last.body \in SoftFailures)
                 /\ last.success => last.body = "SOPs processed successfully"
                 /\ last.body = "No documents found"
                      => (~last.success /\ last.docs_count = 0 /\ last.chunks_count = 0) )
    /\ [][ \A t \in Threads :
             (pc[t] = "ps_load" /\ pc'[t] = "idle" /\ last'.kind = "process_sops")
                <=> (pc[t] = "ps_load" /\ load_documents_from_sops_dir(sops_dir) = <<>>
                       /\ last'.body = "No documents found") ]_vars

\* C17 witness: process_sops ran on a missing or empty source directory.
C17_Witness ==
    /\ last.kind = "process_sops"
    /\ last.status = 200
    /\ ~last.success
    /\ last.docs_count = 0
    /\ \A n \in NameSet : sops_dir.files[n] = Absent

\* C18 (as claimed), for requests whose body is a JSON object: ask_question
\* answers 400 exactly when the question is absent or empty or the knowledge
\* base was not READY at the gate, and 200 with an answer in every other case.
C18_AskStatusAsClaimed ==
    (last.kind = "ask" /\ last.body # "unhandled exception")
        => /\ last.status = 400 <=> (~last.gate \/ last.body = "No question provided")
           /\ (last.gate /\ last.body # "No question provided")
                 => (last.status = 200 /\ last.invoked)

\* C18 (amended): not READY at the gate gives the 400 not-ready answer; READY
\* and a JSON body without a question gives 400; READY and a question gives
\* 200 with an answer when invoke() returns and 500 with an error when it
\* raises or when the chain has been cleared since the gate; a body that is
\* not a JSON object gets Flask's answer to the escaped exception.
C18_AskStatus ==
    last.kind = "ask"
        => /\ ~last.gate
                => (last.status = 400 /\ last.body = "SOPs not processed yet")
           /\ last.gate
                => /\ last.body \in {"No question provided", "unhandled exception",
                                     "Error processing question", "answer", "llm_error_text"}
                   /\ last.body = "No question provided" => last.status = 400
                   /\ last.body = "unhandled exception"
                        => (last.status \in EscapedStatus /\ ~last.invoked)
                   /\ last.body = "Error processing question" => last.status = 500
                   /\ last.body \in {"answer", "llm_error_text"}
                        => (last.status = 200 /\ last.invoked)

\* C18 witness: the knowledge base was READY, the request carried a question,
\* and invoke() raised.
C18_Witness ==
    /\ last.kind = "ask"
    /\ last.gate
    /\ last.invoked
    /\ last.status = 500
    /\ last.body = "Error processing question"

\* C19 (as claimed): when the language-model call fails while a question is
\* answered, the response is an error response, never a 200 whose answer is
\* the failure text.
C19_DependencyFailureIsError ==
    (last.kind = "ask" /\ last.body = "llm_error_text")
        => (last.status # 200 /\ last.status >= 500)

\* C20 (as claimed): no exception leaves a request handler; every response is
\* one the handler built.
C20_NoEscapedException ==
    last.body # "unhandled exception"

----------------------------------------------------------------------------
(* Claims C21-C30 *)

\* C21 (as claimed): a process_sops that succeeds, whatever the state it
\* started from, leaves the state READY with error_message None,
\* processed_docs_count equal to the number of documents this request loaded,
\* processed_chunks_count equal to the number of passages this request
\* produced, and that number equal to the entry count of the vector store now
\* held, which is the store this request built and the one the chain
\* retrieves from.
C21_SuccessReplacesState ==
    [][ \A t \in Threads :
          (pc[t] = "ps_ready" /\ pc'[t] = "idle" /\ last'.kind = "process_sops" /\ last'.success)
            => /\ KBReady(app_state')
               /\ app_state'.error_message = None
               /\ app_state'.processed_docs_count = Len(loc[t].docs)
               /\ app_state'.processed_chunks_count = Len(loc[t].chunks)
               /\ app_state'.processed_chunks_count = ntotal(app_state'.vector_store)
               /\ app_state'.vector_store = loc[t].ret_vs
               /\ app_state'.qa_chain.retriever = app_state'.vector_store
               /\ last'.docs_count = Len(loc[t].docs)
               /\ last'.chunks_count = Len(loc[t].chunks) ]_vars

\* The position of a document in documents_data.
DocPos(docs, name) == CHOOSE i \in 1..Len(docs) : docs[i].name = name

\* C22: the passages get_text_chunks returns are grouped by document, in
\* document order; within a document they follow the text from left to right
\* and carry the indices 0..n-1, the document's name as source and
\* <name>_chunk_<index> as chunk_id, the numbering starting again at 0 with
\* every document; a document whose text fits in one chunk gives exactly the
\* passage <name>_chunk_0, and one with whitespace only gives none.
C22_ChunkNumbering ==
    [][ \A t \in Threads :
          (pc[t] = "ps_chunk" /\ pc'[t] = "cvs_begin")
            => LET D == loc[t].docs
                   C == loc'[t].chunks
                   Of(name) == {j \in 1..Len(C) : C[j].source = name}
               IN  /\ \A j \in 1..Len(C) :
                        /\ \E i \in 1..Len(D) : D[i].name = C[j].source
                        /\ C[j].chunk_id[1] = C[j].source
                        /\ C[j].chunk_id[2] = "_chunk_"
                        /\ C[j].chunk_id[3] =
                              Cardinality({k \in Of(C[j].source) : k < j})
                        /\ \A k \in 1..Len(C) :
                              (j < k /\ C[j].source = C[k].source)
                                => \A m \in j..k : C[m].source = C[j].source
                        /\ \A k \in 1..Len(C) :
                              (j < k /\ C[j].source # C[k].source)
                                => DocPos(D, C[j].source) < DocPos(D, C[k].source)
                   /\ \A i \in 1..Len(D) :
                        LET text == D[i].text
                            first == CHOOSE j \in Of(D[i].name) :
                                        \A k \in Of(D[i].name) : j <= k
                        IN  /\ (\A b \in 1..Len(text) : text[b] = " ")
                                 => Of(D[i].name) = {}
                            /\ (\A b \in 1..Len(text) : text[b] # " ")
                                 => /\ Cardinality(Of(D[i].name)) = Len(text)
                                    /\ \A b \in 1..Len(text) :
                                          /\ C[first + b - 1].page_content = text[b]
                                          /\ C[first + b - 1].chunk_id[3] = b - 1
                            /\ (Len(text) = 1 /\ text[1] # " ")
                                 => \E j \in 1..Len(C) :
                                       /\ Of(D[i].name) = {j}
                                       /\ C[j].chunk_id = <<D[i].name, "_chunk_", 0>> ]_vars

\* C22 witness: two documents of two passages each were chunked, followed by
\* a document that fits in one chunk.
C22_Witness ==
    \E t \in Threads :
        /\ pc[t] = "cvs_begin"
        /\ loc[t].op = "ps"
        /\ Len(loc[t].docs) = 3
        /\ Len(loc[t].chunks) = 5
        /\ loc[t].chunks[2].chunk_id[3] = 1
        /\ loc[t].chunks[3].chunk_id[3] = 0
        /\ loc[t].chunks[3].source # loc[t].chunks[2].source
        /\ loc[t].chunks[5].chunk_id = <<"test_sop.txt", "_chunk_", 0>>

\* The files listed in the source directory.
Listed(dir) == {n \in NameSet : dir.files[n] # Absent}

\* The directory holds only files of a supported extension whose extraction
\* succeeds and gives non-empty text.
OnlySupportedNonEmpty(dir) ==
    \A n \in Listed(dir) :
        Supported(n) /\ dir.files[n] # Corrupt /\ dir.files[n] # <<>>

\* The listed files whose text is whitespace and nothing else.
BlankFiles(dir) ==
    {n \in Listed(dir) : dir.files[n] # <<>> /\ \A b \in 1..Len(dir.files[n]) : dir.files[n][b] = " "}

\* A process_sops request that got past the credentials gate has answered.
IngestAnswered == last.kind = "process_sops" /\ last.body # "API key not loaded"

\* C23 (as claimed): over a directory of supported, non-empty files only,
\* process_sops reports docs_count equal to the number of files and
\* chunks_count at least docs_count, also when a file holds whitespace only.
C23_CountsAsClaimed ==
    (IngestAnswered /\ OnlySupportedNonEmpty(sops_dir))
        => /\ last.docs_count = Cardinality(Listed(sops_dir))
           /\ last.chunks_count >= last.docs_count

\* C23 (amended): over such a directory docs_count is the number of files; a
\* file of whitespace only is counted as a document and contributes no
\* passage, every other file contributes at least one, so chunks_count is at
\* least the number of files that are not whitespace-only (at least docs_count
\* when there is no such file), and a directory of whitespace-only files ends
\* in the "Failed to create text chunks" answer with chunks_count 0.
C23_Counts ==
    (IngestAnswered /\ OnlySupportedNonEmpty(sops_dir))
        => LET files == Listed(sops_dir)
               blank == BlankFiles(sops_dir)
           IN  /\ last.docs_count = Cardinality(files)
               /\ last.chunks_count >= Cardinality(files \ blank)
               /\ blank = {} => last.chunks_count >= last.docs_count
               /\ (files # {} /\ blank = files)
                    => /\ last.body = "Failed to create text chunks"
                       /\ last.chunks_count = 0
                       /\ last.status = 200
                       /\ ~last.success

\* C23 witness: an ingestion succeeded over three supported, non-empty files
\* of which one holds whitespace only: three documents, fewer passages.
C23_Witness ==
    /\ IngestAnswered
    /\ last.success
    /\ OnlySupportedNonEmpty(sops_dir)
    /\ Cardinality(BlankFiles(sops_dir)) = 1
    /\ last.docs_count = 3
    /\ last.chunks_count = 2

\* The position of a file in the directory listing.
NamePos(name) == CHOOSE i \in 1..Len(Names) : Names[i] = name

\* The listed files of a supported extension whose extraction does not raise
\* and gives text.
Extractable(dir) ==
    IF ~dir.exists THEN {}
    ELSE {n \in Listed(dir) : Supported(n) /\ dir.files[n] \notin {Corrupt, <<>>}}

\* C24: whichever files of the listing fail in extraction, and wherever they
\* stand in it, the load goes through the whole listing and returns exactly
\* the documents of the other supported files that have text, each with its
\* file's text, in listing order (none at all gives the "No documents found"
\* answer, never an error).
C24_FailingFilesSkipped ==
    [][ \A t \in Threads :
          (pc[t] = "ps_load" /\ pc'[t] # "ps_load")
            => LET good == Extractable(sops_dir)
                   D == loc'[t].docs
               IN  IF good = {}
                   THEN /\ pc'[t] = "idle"
                        /\ last'.body = "No documents found"
                        /\ last'.status = 200
                   ELSE /\ pc'[t] = "ps_chunk"
                        /\ Len(D) = Cardinality(good)
                        /\ \A i \in 1..Len(D) :
                              /\ D[i].name \in good
                              /\ D[i].text = sops_dir.files[D[i].name]
                              /\ \A j \in 1..Len(D) :
                                    i < j => NamePos(D[i].name) < NamePos(D[j].name) ]_vars

\* C24 witness: the second file of the listing raised in extraction and the
\* load returned the first and the last, passing over an unsupported file too.
C24_Witness ==
    \E t \in Threads :
        /\ pc[t] = "ps_chunk"
        /\ sops_dir.files["b.pdf"] = Corrupt
        /\ sops_dir.files["notes.md"] # Absent
        /\ Len(loc[t].docs) = 2
        /\ loc[t].docs[1].name = "a.txt"
        /\ loc[t].docs[2].name = "test_sop.txt"

\* A call of get_similar_docs of the script has returned.
Searched(t) == pc[t] \in {"script_query2", "script_end"}

\* The result holds passages of the store, none of them twice.
NoPadding(result, vector_store) ==
    /\ \A i \in 1..Len(result) : \E j \in 1..ntotal(vector_store) : result[i] = vector_store.docs[j]
    /\ \A i \in 1..Len(result) : \A j \in 1..Len(result) : result[i] = result[j] => i = j

\* C25 (as claimed): every call of get_similar_docs with parameter k on a built
\* index returns min(k, number of passages) passages, so fewer than k only when
\* the index holds fewer than k, and then all of them without padding; also
\* when the similarity search raises.
C25_RetrievalReturnsMinK ==
    \A t \in Threads :
        Searched(t)
          => /\ Len(loc[t].similar) = Min(ScriptK, ntotal(loc[t].ret_vs))
             /\ NoPadding(loc[t].similar, loc[t].ret_vs)

\* The part of C25 that get_similar_docs delivers: a call in which the
\* similarity search does not raise returns min(k, number of passages)
\* passages of the store.
C25_WhenSearchReturns ==
    \A t \in Threads :
        (Searched(t) /\ ~loc[t].search_raised)
          => /\ Len(loc[t].similar) = Min(ScriptK, ntotal(loc[t].ret_vs))
             /\ NoPadding(loc[t].similar, loc[t].ret_vs)

\* C26: a 200 answer of ask_question lists one source entry per passage the
\* chain returned, in the chain's rank order, each with that passage's
\* metadata unchanged and a preview made of at most the first 250 characters
\* of its content followed by the fixed suffix; the answer is the chain's
\* result text as it is.
C26_SourcesAsRetrieved ==
    (last.kind = "ask" /\ last.status = 200)
        => LET passages == last.result.source_documents
           IN  /\ last.body = last.result.result
               /\ Len(last.sources) = Len(passages)
               /\ \A i \in 1..Len(passages) :
                     LET preview == last.sources[i].content
                     IN  /\ last.sources[i].metadata.source = passages[i].source
                         /\ last.sources[i].metadata.chunk_id = passages[i].chunk_id
                         /\ preview.head.of = passages[i].page_content
                         /\ preview.head.len <= PreviewChars
                         /\ preview.head.len <= Length(passages[i].page_content)
                         /\ (preview.head.len = PreviewChars
                               \/ preview.head.len = Length(passages[i].page_content))
                         /\ preview.tail = "... (truncated)"

\* C26 witness: a question was answered from an index of six passages: the
\* five best are listed, best first (here the last passage of the corpus),
\* the preview of a full chunk cut at 250 characters and that of a short
\* passage keeping all of it.
C26_Witness ==
    /\ last.kind = "ask"
    /\ last.status = 200
    /\ ntotal(app_state.vector_store) = 6
    /\ Len(last.sources) = RetrieverK
    /\ last.sources[1].metadata.chunk_id = <<"test_sop.txt", "_chunk_", 1>>
    /\ last.sources[1].content.head.len = TestSopLen
    /\ last.sources[2].content.head.len = PreviewChars

\* C27: with requests handled one at a time, between two requests
\* sops_processed is true exactly when qa_chain is not None, and when it is
\* true the state holds a vector store, no error message, and counts of at
\* least one document and one passage.
C27_BoundaryInvariant ==
    AllIdle
        => /\ app_state.sops_processed <=> (app_state.qa_chain # NoChain)
           /\ app_state.sops_processed
                => /\ app_state.vector_store # NoStore
                   /\ app_state.error_message = None
                   /\ app_state.processed_docs_count >= 1
                   /\ app_state.processed_chunks_count >= 1

\* C27 witness: an upload has just completed on a knowledge base that was
\* READY: the flag and the chain are both cleared, the store and the counts of
\* the previous cycle remain.
C27_Witness ==
    /\ AllIdle
    /\ last.kind = "upload"
    /\ last.success
    /\ ~app_state.sops_processed
    /\ app_state.qa_chain = NoChain
    /\ app_state.vector_store # NoStore
    /\ app_state.processed_chunks_count >= 1
    /\ app_state.error_message = None

\* C28 (as claimed): a request that carries a question and has passed the
\* readiness gate invokes a chain, whatever process_sops or upload_sop do in
\* the meantime: it is never answered 500 without an invocation because the
\* chain was cleared between the check and the call.
C28_GateChainInvoked ==
    (/\ last.kind = "ask"
     /\ last.gate
     /\ last.body \notin {"No question provided", "unhandled exception"})
        => last.invoked

\* create_vector_store has returned a store to thread t.
Returned(t) == loc[t].via \in {"load", "build"} /\ loc[t].ret_vs # NoStore

\* C29 (as claimed): whenever create_vector_store(P, force_recreate) returns a
\* store, by loading or by building, the passages it returns are P and the
\* store indexes P, never a persisted corpus other than P.
C29_ReturnsSuppliedPassages ==
    \A t \in Threads :
        Returned(t)
          => /\ loc[t].ret_chunks = loc[t].chunks
             /\ loc[t].ret_vs.docs = loc[t].chunks

\* C29 (amended): a store returned by a build indexes P and comes with P; a
\* store returned by the load path comes from a non-forced call and is the
\* persisted one, with the persisted passages, whatever P is; process_sops
\* forces the build, so what the server holds always comes from a build.
C29_ReturnedPassages ==
    \A t \in Threads :
        /\ (Returned(t) /\ loc[t].via = "build")
              => /\ loc[t].ret_chunks = loc[t].chunks
                 /\ loc[t].ret_vs.docs = loc[t].chunks
        /\ (Returned(t) /\ loc[t].via = "load")
              => /\ ~loc[t].force
                 /\ loc[t].op = "script"
                 /\ loc[t].ret_vs = LoadLocal(index_file)
                 /\ loc[t].ret_chunks = chunks_file.chunks
        /\ (Returned(t) /\ loc[t].op = "ps") => loc[t].via = "build"

\* C29 witness: a non-forced call made with two passages has returned the
\* persisted corpus of one passage that an earlier build had left.
C29_Witness ==
    \E t \in Threads :
        /\ Returned(t)
        /\ loc[t].via = "load"
        /\ Len(loc[t].chunks) = 2
        /\ Len(loc[t].ret_chunks) = 1
        /\ loc[t].ret_vs.docs = loc[t].ret_chunks

\* C30: whenever create_vector_store returns a store, loaded or built, the
\* number of entries of its index is the length of the passage list returned
\* with it.
C30_StoreCountIsListLength ==
    \A t \in Threads :
        Returned(t) => ntotal(loc[t].ret_vs) = Len(loc[t].ret_chunks)

\* C30 witness: a non-forced call has loaded a persisted pair of two entries
\* while it was called with a single passage.
C30_Witness ==
    \E t \in Threads :
        /\ Returned(t)
        /\ loc[t].via = "load"
        /\ ntotal(loc[t].ret_vs) = 2
        /\ Len(loc[t].ret_chunks) = 2
        /\ Len(loc[t].chunks) = 1

----------------------------------------------------------------------------
(* Claims C31-C32 *)

\* C31: a successful upload_sop changes, of app_state, only sops_processed (to
\* false) and qa_chain (to None): saving the file changes nothing of it, the
\* return writes the two fields and leaves vector_store, the two counts,
\* error_message and api_key_loaded as they were; a status request answered
\* right after the upload reports sops_processed = false together with the
\* counts and the other fields the state held before the upload.
C31_UploadFrame ==
    [][ /\ (\E t \in Threads : pc[t] # "up_mark" /\ pc'[t] = "up_mark")
            => app_state' = app_state
        /\ (last'.kind = "upload" /\ last'.success)
            => /\ app_state'.sops_processed = FALSE
               /\ app_state'.qa_chain = NoChain
               /\ app_state'.vector_store = app_state.vector_store
               /\ app_state'.processed_docs_count = app_state.processed_docs_count
               /\ app_state'.processed_chunks_count = app_state.processed_chunks_count
               /\ app_state'.error_message = app_state.error_message
               /\ app_state'.api_key_loaded = app_state.api_key_loaded
        /\ (last'.kind = "status" /\ last'.after_upload)
            => /\ last'.status = 200
               /\ last'.reported.sops_processed = FALSE
               /\ last'.reported.processed_docs_count = app_state.processed_docs_count
               /\ last'.reported.processed_chunks_count = app_state.processed_chunks_count
               /\ last'.reported.error_message = app_state.error_message
               /\ last'.reported.api_key_loaded = app_state.api_key_loaded
               /\ app_state' = app_state
      ]_vars

\* A status request answered right after an upload on a knowledge base that had
\* been ingested: the counts of that ingestion with sops_processed = false, the
\* store still in memory.
C31_Witness ==
    /\ last.kind = "status"
    /\ last.after_upload
    /\ last.reported.sops_processed = FALSE
    /\ last.reported.processed_docs_count > 0
    /\ last.reported.processed_chunks_count > 0
    /\ app_state.vector_store # NoStore
    /\ app_state.qa_chain = NoChain

\* The step just taken was an upload_sop that was rejected or failed.
UploadFailed(r) == r.kind = "upload" /\ ~r.success

\* C32: an upload_sop that is rejected (no file part, empty filename) or fails
\* (the directory cannot be created, saving the file raises) answers 400 or 500
\* and leaves app_state and the persisted index as they were, so a READY
\* knowledge base is still READY after it; a question asked next passes the
\* gate and reaches the chain.
C32_FailedUploadLeavesState ==
    [][ /\ UploadFailed(last')
            => /\ last'.status \in {400, 500}
               /\ app_state' = app_state
               /\ index_file' = index_file
               /\ chunks_file' = chunks_file
               /\ KBReady(app_state) => KBReady(app_state')
        /\ (UploadFailed(last) /\ KBReady(app_state))
            => ~(last'.kind = "ask" /\ last'.body = "SOPs not processed yet")
      ]_vars

\* A save that failed half way on a READY knowledge base: the file is in the
\* directory without content, the state is still READY with the counts of the
\* last ingestion.
C32_Witness ==
    /\ UploadFailed(last)
    /\ last.body = "Error saving file"
    /\ KBReady(app_state)
    /\ app_state.processed_docs_count > 0
    /\ \E name \in UploadNames : sops_dir.files[name] = <<>>

====
